---- MODULE Spec2Model ----
(***************************************************************************)
(* Model of native/src/base/logging.rs: the process-wide Logger State      *)
(* (LOGGER: a sink function pointer and a u32 of flags), its configuration *)
(* calls, the two dispatch entry points log_with_rs and log_impl, the      *)
(* logging macros and ResultExt::log.                                      *)
(*                                                                         *)
(* The embedding program makes one call at a time.  A call is one action;   *)
(* the variables op, pre, trace, io, ret and evals record it: its          *)
(* arguments, the Logger State it started from, the ordered events it      *)
(* produced (sink invocations, process exit), the stream writes of the     *)
(* command-line sink, the value it returned and the number of argument     *)
(* expressions the call site evaluated.  When the call has returned the    *)
(* caller goes on (Continue) and the record is cleared for the next call.  *)
(***************************************************************************)
EXTENDS Integers, Sequences, FiniteSets, TLC

VARIABLES
    LOGGER,            \* the static Logger: [write, flags]
    alive,             \* FALSE once exit() has been called
    exit_code,         \* the status passed to exit(), 0 while alive
    debug_assertions,  \* the build configuration (cfg(debug_assertions))
    op,                \* the call just made: [name, level, b, msg, res]
    pre,               \* LOGGER when that call started
    trace,             \* events of the last call, in order
    io,                \* stream writes of the last call, in order
    ret,               \* what the last call returned
    evals,             \* argument expressions evaluated by the last call site
    errRun,            \* consecutive Error-level dispatches that returned
    tog                \* progress of an enable/disable/enable run on one level,
                       \* followed only in the behaviours of SpecToggle

vars == <<LOGGER, alive, exit_code, debug_assertions, op, pre, trace, io, ret,
          evals, errRun, tog>>

----------------------------------------------------------------------------
(* LogFlag, lines 10-16 *)
DisableError == 1
DisableWarn == 2
DisableInfo == 4
DisableDebug == 8
ExitOnError == 16

(* LogLevel (crate::ffi); "Other" stands for any variant the match of        *)
(* as_disable_flag sends to its wildcard arm.                                *)
Levels == {"Error", "Warn", "Info", "Debug", "Other"}
RankedLevels == {"Error", "Warn", "Info", "Debug"}

(* u32 bit operations, on the naturals.  flags & !flag is AndNot.           *)
RECURSIVE BitAnd(_, _)
BitAnd(x, y) ==
    IF x = 0 \/ y = 0 THEN 0
    ELSE (x % 2) * (y % 2) + 2 * BitAnd(x \div 2, y \div 2)

RECURSIVE BitOr(_, _)
BitOr(x, y) ==
    IF x = 0 THEN y
    ELSE IF y = 0 THEN x
    ELSE (IF x % 2 = 1 \/ y % 2 = 1 THEN 1 ELSE 0) + 2 * BitOr(x \div 2, y \div 2)

RECURSIVE AndNot(_, _)
AndNot(x, y) ==
    IF x = 0 THEN 0
    ELSE (x % 2) * (1 - (y % 2)) + 2 * AndNot(x \div 2, y \div 2)

(* Every combination of the five LogFlag bits. *)
AllFlags == 0 .. (2 * ExitOnError - 1)

(* The sinks a Logger can point to: the initial closure |_, _| {}, the      *)
(* command-line sink, a sink supplied by the embedder, and an embedder's    *)
(* sink that makes a configuration call while it runs.                      *)
Sinks == {"nop", "cmdline_write", "custom", "reconf"}

Logger(w, f) == [write |-> w, flags |-> f]

(* Whether a write of the sink can fail: only the command-line sink writes. *)
WriteResults(L) == IF L.write = "cmdline_write" THEN BOOLEAN ELSE {TRUE}

(* The configuration call a reconfiguring sink makes: exit_on_error(true),  *)
(* exit_on_error(false), set_log_level_state(level, false) for the level it *)
(* is called with, or cmdline_logging().                                    *)
SinkConfigCalls(L) ==
    IF L.write = "reconf" THEN {"exit_on", "exit_off", "disable", "cmdline"} ELSE {"none"}

(* What one run of the sink does: whether its write succeeds and the        *)
(* configuration call it makes.                                             *)
SinkRuns(L) == {[ok |-> b, cfg |-> c] : b \in WriteResults(L), c \in SinkConfigCalls(L)}

----------------------------------------------------------------------------
(* Bounds of the model and the byte strings it draws its inputs from.       *)
BufCap == 4096      \* the scratch buffer of log_impl, [u8; 4096]
MaxOver == 1        \* rendered output may exceed the buffer by this much
MaxErrRun == 2      \* errRun stops counting here
NumVals == 2        \* success values carried by a Result

NL == 10            \* '\n', appended by format_args_nl!

Min(a, b) == IF a <= b THEN a ELSE b

(* One long byte string with no two equal neighbours; inputs are slices.    *)
Base == [i \in 1 .. (BufCap + MaxOver + 1) |-> 32 + (i % 95)]
Zeros == [i \in 1 .. BufCap |-> 0]

ShortMsgs == {<<65>>, <<66, 67>>}
LongMsgs == {SubSeq(Base, 1, n) : n \in (BufCap - 1) .. (BufCap + MaxOver)}

(* Inputs: raw bytes for log_with_rs, full renderings for log_impl, and the *)
(* text a macro's template and arguments render to (before the newline).    *)
RawMsgs == ShortMsgs \cup LongMsgs
Renderings == ShortMsgs \cup LongMsgs
Texts == ShortMsgs \cup LongMsgs

(* Result<T, E>: Ok(v) or Err(e).  An error value e has an identity and the *)
(* text its Display implementation writes for "{:#}".                       *)
Ok(v) == [tag |-> "Ok", v |-> v]
Err(e) == [tag |-> "Err", e |-> e]
Errors == {[id |-> Len(m), text |-> m] : m \in Texts}
Results == {Ok(v) : v \in 1 .. NumVals} \cup {Err(e) : e \in Errors}
Display(e) == e.text

Unit == [tag |-> "Unit"]        \* a call that returned ()
Diverged == [tag |-> "Never"]   \* a call that did not return

----------------------------------------------------------------------------
(* Configuration, as functions of the Logger they are applied to.           *)

(* Faulty variant of exit_on_error: the bit flipped when b, kept otherwise. *)
exit_on_error_flips(L, b) ==
    IF b /\ BitAnd(L.flags, ExitOnError) # 0
    THEN [L EXCEPT !.flags = AndNot(L.flags, ExitOnError)]
    ELSE IF b THEN [L EXCEPT !.flags = BitOr(L.flags, ExitOnError)]
    ELSE L

(* exit_on_error, lines 31-39 *)
exit_on_error(L, b) ==
    IF b THEN [L EXCEPT !.flags = BitOr(L.flags, ExitOnError)]
    ELSE [L EXCEPT !.flags = AndNot(L.flags, ExitOnError)]

(* Faulty variant of as_disable_flag: the wildcard arm shares Debug's bit. *)
as_disable_flag_wildcard_debug(level) ==
    CASE level = "Error" -> DisableError
      [] level = "Warn" -> DisableWarn
      [] level = "Info" -> DisableInfo
      [] OTHER -> DisableDebug

(* Faulty variant of as_disable_flag: the wildcard arm shares Error's bit. *)
as_disable_flag_wildcard_error(level) ==
    CASE level = "Warn" -> DisableWarn
      [] level = "Info" -> DisableInfo
      [] level = "Debug" -> DisableDebug
      [] OTHER -> DisableError

(* LogLevel::as_disable_flag, lines 41-51 *)
as_disable_flag(level) ==
    CASE level = "Error" -> DisableError
      [] level = "Warn" -> DisableWarn
      [] level = "Info" -> DisableInfo
      [] level = "Debug" -> DisableDebug
      [] OTHER -> 0

(* Faulty variant of set_log_level_state: the two branches exchanged. *)
set_log_level_state_swapped(L, level, enabled) ==
    LET flag == as_disable_flag(level)
    IN  IF enabled THEN [L EXCEPT !.flags = BitOr(L.flags, flag)]
        ELSE [L EXCEPT !.flags = AndNot(L.flags, flag)]

(* set_log_level_state, lines 53-62 *)
set_log_level_state(L, level, enabled) ==
    LET flag == as_disable_flag(level)
    IN  IF enabled THEN [L EXCEPT !.flags = AndNot(L.flags, flag)]
        ELSE [L EXCEPT !.flags = BitOr(L.flags, flag)]

(* Faulty variant of cmdline_logging: ExitOnError or-ed into the flags in place. *)
cmdline_logging_merged(L) == Logger("cmdline_write", BitOr(L.flags, ExitOnError))

(* cmdline_logging, lines 97-103: the Logger it stores *)
cmdline_logging(L) == Logger("cmdline_write", ExitOnError)

----------------------------------------------------------------------------
(* Dispatch.  The outcome of a call is the ordered list of its events, the  *)
(* stream writes made by the sink, and whether the process is still alive.  *)

WriteEv(level, msg) == [ev |-> "write", level |-> level, msg |-> msg, code |-> 0]
ExitEv(code) == [ev |-> "exit", level |-> "", msg |-> <<>>, code |-> code]
PanicEv == [ev |-> "panic", level |-> "", msg |-> <<>>, code |-> 101]

(* What a run of the sink leaves behind: its stream writes and the Logger   *)
(* in the static LOGGER when it returns.                                    *)
Ran(writes, G) == [io |-> writes, global |-> G]
NoSink(G) == Ran(<<>>, G)

Outcome(t, w, a, c) ==
    [trace |-> t, io |-> w.io, logger |-> w.global, alive |-> a, code |-> c]

(* Faulty variant of cmdline_write: the two streams exchanged. *)
cmdline_write_exchanged(level, msg, wok) ==
    IF level = "Info"
    THEN <<[stream |-> "stderr", bytes |-> msg, ok |-> wok]>>
    ELSE <<[stream |-> "stdout", bytes |-> msg, ok |-> wok]>>

(* cmdline_write, lines 89-95: one write_all on one stream; .ok() drops the *)
(* io::Result, so a failed write (wok = FALSE) changes nothing else.        *)
cmdline_write(level, msg, wok) ==
    IF level = "Info"
    THEN <<[stream |-> "stdout", bytes |-> msg, ok |-> wok]>>
    ELSE <<[stream |-> "stderr", bytes |-> msg, ok |-> wok]>>

(* The configuration call made from inside a reconfiguring sink. *)
Reconfigure(G, level, cfg) ==
    CASE cfg = "exit_on" -> exit_on_error(G, TRUE)
      [] cfg = "exit_off" -> exit_on_error(G, FALSE)
      [] cfg = "disable" -> set_log_level_state(G, level, FALSE)
      [] cfg = "cmdline" -> cmdline_logging(G)
      [] OTHER -> G

(* (logger.write)(level, msg), called while LOGGER still holds L: the       *)
(* stream writes the sink makes and the Logger it leaves in LOGGER.         *)
CallSink(L, level, msg, run) ==
    IF L.write = "cmdline_write" THEN Ran(cmdline_write(level, msg, run.ok), L)
    ELSE IF L.write = "reconf" THEN Ran(<<>>, Reconfigure(L, level, run.cfg))
    ELSE Ran(<<>>, L)

(* Faulty variants of ExitStep: exit() reached before the sink is called; the       *)
(* ExitOnError bit not consulted.                                           *)
ExitStep_before_sink(logger, level, t, w) ==
    IF level = "Error" /\ BitAnd(logger.flags, ExitOnError) # 0
    THEN Outcome(<<ExitEv(1)>>, NoSink(logger), FALSE, 1)
    ELSE Outcome(t, w, TRUE, 0)

ExitStep_ignores_flag(logger, level, t, w) ==
    IF level = "Error"
    THEN Outcome(Append(t, ExitEv(1)), w, FALSE, 1)
    ELSE Outcome(t, w, TRUE, 0)

(* Faulty variants of ExitStep: a failed write of the sink unwrapped; the    *)
(* level not compared with Error.                                           *)
ExitStep_unwraps(logger, level, t, w) ==
    IF w.io # <<>> /\ ~w.io[1].ok
    THEN Outcome(Append(t, PanicEv), w, FALSE, 101)
    ELSE IF level = "Error" /\ BitAnd(logger.flags, ExitOnError) # 0
    THEN Outcome(Append(t, ExitEv(1)), w, FALSE, 1)
    ELSE Outcome(t, w, TRUE, 0)

ExitStep_any_level(logger, level, t, w) ==
    IF BitAnd(logger.flags, ExitOnError) # 0
    THEN Outcome(Append(t, ExitEv(1)), w, FALSE, 1)
    ELSE Outcome(t, w, TRUE, 0)

(* Faulty variant of ExitStep: LOGGER.flags read again after the sink call  *)
(* instead of the copy taken at entry.                                      *)
ExitStep_rereads(logger, level, t, w) ==
    IF level = "Error" /\ BitAnd(w.global.flags, ExitOnError) # 0
    THEN Outcome(Append(t, ExitEv(1)), w, FALSE, 1)
    ELSE Outcome(t, w, TRUE, 0)

(* The exit-on-error step shared by both entry points, lines 70-72, 83-85 *)
ExitStep(logger, level, t, w) ==
    IF level = "Error" /\ BitAnd(logger.flags, ExitOnError) # 0
    THEN Outcome(Append(t, ExitEv(1)), w, FALSE, 1)
    ELSE Outcome(t, w, TRUE, 0)

(* Faulty variant of log_with_rs: the suppression check left out. *)
log_with_rs_unchecked(L, level, msg, run) ==
    ExitStep(L, level, <<WriteEv(level, msg)>>, CallSink(L, level, msg, run))

(* Faulty variants of log_with_rs: the exit-on-error step left out; the     *)
(* level's suppression bit set in LOGGER once the message is delivered.     *)
log_with_rs_never_exits(L, level, msg, run) ==
    LET logger == L
    IN  IF BitAnd(logger.flags, as_disable_flag(level)) # 0
        THEN Outcome(<<>>, NoSink(L), TRUE, 0)
        ELSE Outcome(<<WriteEv(level, msg)>>, CallSink(logger, level, msg, run), TRUE, 0)

log_with_rs_logs_once(L, level, msg, run) ==
    LET logger == L
    IN  IF BitAnd(logger.flags, as_disable_flag(level)) # 0
        THEN Outcome(<<>>, NoSink(L), TRUE, 0)
        ELSE LET w == CallSink(logger, level, msg, run)
             IN  ExitStep(logger, level, <<WriteEv(level, msg)>>,
                          Ran(w.io, set_log_level_state(w.global, level, FALSE)))

(* log_with_rs, lines 64-73 *)
log_with_rs(L, level, msg, run) ==
    LET logger == L
    IN  IF BitAnd(logger.flags, as_disable_flag(level)) # 0
        THEN Outcome(<<>>, NoSink(L), TRUE, 0)
        ELSE ExitStep(logger, level, <<WriteEv(level, msg)>>,
                      CallSink(logger, level, msg, run))

(* fmt_to_buf (crate::fmt_to_buf): renders into buf, cutting the output at  *)
(* the buffer's capacity, and returns the number of bytes written.          *)
fmt_to_buf(buf, args) ==
    LET n == Min(Len(args), Len(buf))
    IN  [buf |-> SubSeq(args, 1, n) \o SubSeq(buf, n + 1, Len(buf)), len |-> n]

(* Faulty variants of log_impl: the whole buffer handed to the sink instead of      *)
(* &buf[..len]; the rendering handed over without passing through buf.     *)
log_impl_whole_buf(L, level, args, run) ==
    LET logger == L
    IN  IF BitAnd(logger.flags, as_disable_flag(level)) # 0
        THEN Outcome(<<>>, NoSink(L), TRUE, 0)
        ELSE LET r == fmt_to_buf(Zeros, args)
             IN  ExitStep(logger, level, <<WriteEv(level, r.buf)>>,
                          CallSink(logger, level, r.buf, run))

log_impl_unbuffered(L, level, args, run) ==
    LET logger == L
    IN  IF BitAnd(logger.flags, as_disable_flag(level)) # 0
        THEN Outcome(<<>>, NoSink(L), TRUE, 0)
        ELSE ExitStep(logger, level, <<WriteEv(level, args)>>,
                      CallSink(logger, level, args, run))

(* Faulty variant of log_impl: the exit-on-error test made before the       *)
(* suppression test returns.                                                *)
log_impl_exits_when_suppressed(L, level, args, run) ==
    LET logger == L
    IN  IF BitAnd(logger.flags, as_disable_flag(level)) # 0
        THEN ExitStep(logger, level, <<>>, NoSink(L))
        ELSE LET r == fmt_to_buf(Zeros, args)
                 msg == SubSeq(r.buf, 1, r.len)
             IN  ExitStep(logger, level, <<WriteEv(level, msg)>>,
                          CallSink(logger, level, msg, run))

(* log_impl, lines 75-86; args is the full rendering of the Arguments.      *)
(* &buf[..len] panics when len exceeds the buffer.                          *)
log_impl(L, level, args, run) ==
    LET logger == L
    IN  IF BitAnd(logger.flags, as_disable_flag(level)) # 0
        THEN Outcome(<<>>, NoSink(L), TRUE, 0)
        ELSE LET r == fmt_to_buf(Zeros, args)
             IN  IF r.len > Len(r.buf)
                 THEN Outcome(<<PanicEv>>, NoSink(L), FALSE, 101)
                 ELSE LET msg == SubSeq(r.buf, 1, r.len)
                      IN  ExitStep(logger, level, <<WriteEv(level, msg)>>,
                                   CallSink(logger, level, msg, run))

(* format_args_nl!: the rendering of the template and arguments, then '\n' *)
format_args_nl(text) == Append(text, NL)

(* Faulty variant of error!: format_args! in place of format_args_nl!. *)
error_without_newline(L, text, run) == log_impl(L, "Error", text, run)

(* error!, lines 125-128 *)
error(L, text, run) == log_impl(L, "Error", format_args_nl(text), run)

(* Faulty variant of debug!: the cfg(not(debug_assertions)) arm missing. *)
debug_always(L, cfg, text, run) == log_impl(L, "Debug", format_args_nl(text), run)

(* debug!, lines 140-150: compiled to log_impl or to nothing *)
debug(L, cfg, text, run) ==
    IF cfg THEN log_impl(L, "Debug", format_args_nl(text), run)
    ELSE Outcome(<<>>, NoSink(L), TRUE, 0)

(* Faulty variant of ResultExt::log: the error is logged whatever the variant. *)
log_every_variant(L, self, run) ==
    LET o == error(L, IF self.tag = "Err" THEN Display(self.e) ELSE <<>>, run)
    IN  [out |-> o, ret |-> IF o.alive THEN self ELSE Diverged]

(* ResultExt::log, lines 156-163: the outcome of the error! it expands to  *)
(* and the value handed back when the call returns.                         *)
log(L, self, run) ==
    LET o == IF self.tag = "Err" THEN error(L, Display(self.e), run)
             ELSE Outcome(<<>>, NoSink(L), TRUE, 0)
    IN  [out |-> o, ret |-> IF o.alive THEN self ELSE Diverged]

----------------------------------------------------------------------------
(* The calls of the embedding program.                                      *)

NoRes == [tag |-> "None"]
Call(name, level, b, msg, res) ==
    [name |-> name, level |-> level, b |-> b, msg |-> msg, res |-> res]

NoCall == Call("", "", FALSE, <<>>, NoRes)
NoTog == [level |-> "", n |-> 0, start |-> Logger("nop", 0)]
Untracked == [level |-> "", n |-> -1, start |-> Logger("nop", 0)]
Track(t) == IF tog.n < 0 THEN tog ELSE t

(* LOGGER, lines 20-23: a no-op sink and no flags *)
InitLogger ==
    /\ LOGGER = Logger("nop", 0)
    /\ alive = TRUE
    /\ exit_code = 0
    /\ debug_assertions \in BOOLEAN
    /\ op = NoCall
    /\ pre = Logger("nop", 0)
    /\ trace = <<>>
    /\ io = <<>>
    /\ ret = Unit
    /\ evals = 0
    /\ errRun = 0

Init == InitLogger /\ tog = Untracked
InitToggle == InitLogger /\ tog = NoTog

(* A configuration call: stores L2 and returns (). *)
Configure(c, L2) ==
    /\ alive
    /\ op = NoCall
    /\ op' = c
    /\ pre' = LOGGER
    /\ LOGGER' = L2
    /\ trace' = <<>>
    /\ io' = <<>>
    /\ ret' = Unit
    /\ evals' = 0
    /\ errRun' = 0
    /\ UNCHANGED <<alive, exit_code, debug_assertions>>

(* A logging call with outcome o, returning r when it returns. *)
Dispatch(c, o, r, ev) ==
    /\ alive
    /\ op = NoCall
    /\ op' = c
    /\ pre' = LOGGER
    /\ trace' = o.trace
    /\ io' = o.io
    /\ alive' = o.alive
    /\ exit_code' = o.code
    /\ ret' = IF o.alive THEN r ELSE Diverged
    /\ evals' = ev
    /\ errRun' = IF c.level = "Error" THEN Min(errRun + 1, MaxErrRun) ELSE 0
    /\ tog' = Track(NoTog)
    /\ LOGGER' = o.logger
    /\ UNCHANGED debug_assertions

(* a direct store to the pub static LOGGER, lines 20-29 *)
InstallCall ==
    \E w \in Sinks, f \in AllFlags :
        /\ Configure(Call("install", "", FALSE, <<>>, NoRes), Logger(w, f))
        /\ tog' = Track(NoTog)

ExitOnErrorCall ==
    \E b \in BOOLEAN :
        /\ Configure(Call("exit_on_error", "", b, <<>>, NoRes), exit_on_error(LOGGER, b))
        /\ tog' = Track(NoTog)

(* tog follows a run of calls (level, true), (level, false), (level, true) *)
SetLogLevelStateCall ==
    \E level \in Levels, enabled \in BOOLEAN :
        /\ Configure(Call("set_log_level_state", level, enabled, <<>>, NoRes),
                     set_log_level_state(LOGGER, level, enabled))
        /\ tog' = Track(IF tog.n \in {1, 2} /\ level = tog.level /\ enabled = (tog.n = 2)
                        THEN [tog EXCEPT !.n = tog.n + 1]
                        ELSE IF enabled
                             THEN [level |-> level, n |-> 1, start |-> LOGGER]
                             ELSE NoTog)

CmdlineLoggingCall ==
    /\ Configure(Call("cmdline_logging", "", FALSE, <<>>, NoRes), cmdline_logging(LOGGER))
    /\ tog' = Track(NoTog)

LogWithRsCall ==
    \E level \in Levels, msg \in RawMsgs, run \in SinkRuns(LOGGER) :
        Dispatch(Call("log_with_rs", level, FALSE, msg, NoRes),
                 log_with_rs(LOGGER, level, msg, run), Unit, 0)

LogImplCall ==
    \E level \in Levels, args \in Renderings, run \in SinkRuns(LOGGER) :
        Dispatch(Call("log_impl", level, FALSE, args, NoRes),
                 log_impl(LOGGER, level, args, run), Unit, 0)

(* error!(..): the call site evaluates its argument, then calls log_impl *)
ErrorMacroCall ==
    \E text \in Texts, run \in SinkRuns(LOGGER) :
        Dispatch(Call("error!", "Error", FALSE, text, NoRes),
                 error(LOGGER, text, run), Unit, 1)

(* debug!(..): with debug_assertions off the call site expands to nothing *)
DebugMacroCall ==
    \E text \in Texts, run \in SinkRuns(LOGGER) :
        Dispatch(Call("debug!", "Debug", FALSE, text, NoRes),
                 debug(LOGGER, debug_assertions, text, run), Unit,
                 IF debug_assertions THEN 1 ELSE 0)

ResultLogCall ==
    \E self \in Results, run \in SinkRuns(LOGGER) :
        LET r == log(LOGGER, self, run)
        IN  Dispatch(Call("ResultExt::log", IF self.tag = "Err" THEN "Error" ELSE "",
                          FALSE, <<>>, self),
                     r.out, r.ret, IF self.tag = "Err" THEN 1 ELSE 0)

(* The call has returned: the caller goes on to its next call. *)
Continue ==
    /\ alive
    /\ op # NoCall
    /\ op' = NoCall
    /\ pre' = LOGGER
    /\ trace' = <<>>
    /\ io' = <<>>
    /\ ret' = Unit
    /\ evals' = 0
    /\ UNCHANGED <<LOGGER, alive, exit_code, debug_assertions, errRun, tog>>

Next ==
    \/ InstallCall
    \/ ExitOnErrorCall
    \/ SetLogLevelStateCall
    \/ CmdlineLoggingCall
    \/ LogWithRsCall
    \/ LogImplCall
    \/ ErrorMacroCall
    \/ DebugMacroCall
    \/ ResultLogCall
    \/ Continue

Spec == Init /\ [][Next]_vars

(* The same program, with runs of set_log_level_state calls followed in tog. *)
SpecToggle == InitToggle /\ [][Next]_vars

(* The Logger State stays a known sink and a combination of the LogFlag bits. *)
TypeOK ==
    /\ LOGGER.write \in Sinks
    /\ LOGGER.flags \in AllFlags
    /\ pre.write \in Sinks
    /\ pre.flags \in AllFlags
    /\ alive \in BOOLEAN
    /\ errRun \in 0 .. MaxErrRun
    /\ tog.n \in -1 .. 3

----------------------------------------------------------------------------
(* Vocabulary of the properties.                                            *)

(* Bit k of a flags word; the position of each LogFlag. *)
HasBit(f, k) == (f \div (2 ^ k)) % 2 = 1
ExitBit == 4
LevelBit(level) ==
    CASE level = "Error" -> 0
      [] level = "Warn" -> 1
      [] level = "Info" -> 2
      [] level = "Debug" -> 3

(* The level of the last call has a suppression bit and it was set (clear)  *)
(* when the call started.                                                   *)
WasSuppressed == op.level \in RankedLevels /\ HasBit(pre.flags, LevelBit(op.level))
WasUnsuppressed == op.level \in Levels /\ ~WasSuppressed

SinkCalls == SelectSeq(trace, LAMBDA e : e.ev = "write")
Cut(bytes) == IF Len(bytes) <= BufCap THEN bytes ELSE SubSeq(bytes, 1, BufCap)

RawOrFormatted == op.name \in {"log_with_rs", "log_impl"}
ErrorDispatch ==
    /\ op.name \in {"log_with_rs", "log_impl", "error!", "ResultExt::log"}
    /\ op.level = "Error"

AnyDispatch ==
    op.name \in {"log_with_rs", "log_impl", "error!", "debug!", "ResultExt::log"}

----------------------------------------------------------------------------
(* C1: a message of a level whose suppression bit is set, dispatched        *)
(* through log_with_rs or log_impl, reaches the sink zero times (and writes *)
(* nothing to a stream).                                                    *)
C1_SuppressedNeverReachesSink ==
    (RawOrFormatted /\ WasSuppressed) => (SinkCalls = <<>> /\ io = <<>> /\ alive)

C1_Witness ==
    /\ op.name = "log_impl"
    /\ op.level = "Warn"
    /\ WasSuppressed
    /\ pre.write = "cmdline_write"
    /\ Len(op.msg) > 0

(* C2, as stated: an unsuppressed dispatch makes exactly one sink           *)
(* invocation, with the level and exactly the bytes that were dispatched.   *)
C2_Original ==
    (RawOrFormatted /\ WasUnsuppressed) =>
        SinkCalls = <<WriteEv(op.level, op.msg)>>

(* C2, amended: an unsuppressed dispatch makes exactly one sink invocation  *)
(* with the level dispatched; log_with_rs hands over exactly the bytes it   *)
(* was given, log_impl the rendered bytes cut to their first BufCap.        *)
C2_UnsuppressedReachesSinkOnce ==
    (RawOrFormatted /\ WasUnsuppressed) =>
        SinkCalls = <<WriteEv(op.level,
                              IF op.name = "log_impl" THEN Cut(op.msg) ELSE op.msg)>>

C2_Witness ==
    /\ op.name = "log_impl"
    /\ op.level = "Info"
    /\ WasUnsuppressed
    /\ Len(op.msg) > BufCap
    /\ SinkCalls = <<WriteEv("Info", SubSeq(op.msg, 1, BufCap))>>

(* C3, as stated: with exit-on-error set, an Error-level dispatch ends the  *)
(* process with a non-zero status after exactly one sink invocation.        *)
C3_Original ==
    (ErrorDispatch /\ HasBit(pre.flags, ExitBit)) =>
        /\ ~alive
        /\ exit_code # 0
        /\ Len(SinkCalls) = 1

(* C3, amended: with exit-on-error set and the Error suppression bit clear, *)
(* an Error-level dispatch invokes the sink exactly once, and only then     *)
(* exits with a non-zero status; the call does not return.                  *)
C3_ExitAfterSink ==
    (ErrorDispatch /\ HasBit(pre.flags, ExitBit) /\ ~HasBit(pre.flags, 0)) =>
        /\ ~alive
        /\ exit_code # 0
        /\ Len(trace) = 2
        /\ trace[1].ev = "write"
        /\ trace[1].level = "Error"
        /\ trace[2].ev = "exit"
        /\ trace[2].code = exit_code
        /\ ret = Diverged

C3_Witness ==
    /\ op.name = "log_with_rs"
    /\ op.level = "Error"
    /\ pre.flags = ExitOnError
    /\ ~alive
    /\ Len(trace) = 2

(* C4: while the exit-on-error bit is clear, a run of Error-level           *)
(* dispatches of any length never ends the process: each call returns.      *)
C4_NoExitWithoutFlag ==
    (errRun >= 1 /\ ~HasBit(pre.flags, ExitBit)) =>
        (alive /\ ret # Diverged /\ exit_code = 0)

C4_Witness ==
    /\ errRun = MaxErrRun
    /\ ~HasBit(LOGGER.flags, ExitBit)
    /\ ~HasBit(LOGGER.flags, 0)
    /\ Len(SinkCalls) = 1
    /\ alive

(* C5, as stated: ResultExt::log on a failure makes exactly one Error-level *)
(* sink invocation whose bytes are the failure's display string, and        *)
(* returns the failure unchanged.                                           *)
C5_Original ==
    (op.name = "ResultExt::log" /\ op.res.tag = "Err") =>
        /\ SinkCalls = <<WriteEv("Error", Display(op.res.e))>>
        /\ ret = op.res

(* C5, amended: ResultExt::log on a failure dispatches the failure's        *)
(* display string followed by a newline at Error level through log_impl:    *)
(* no sink invocation when Error is suppressed, otherwise exactly one,      *)
(* carrying those bytes cut to their first BufCap; it returns the failure   *)
(* unchanged unless Error is unsuppressed and exit-on-error is set, when    *)
(* the process exits with status 1 after the sink invocation.               *)
C5_FailureIsLoggedAndReturned ==
    (op.name = "ResultExt::log" /\ op.res.tag = "Err") =>
        /\ IF HasBit(pre.flags, 0)
           THEN SinkCalls = <<>>
           ELSE SinkCalls = <<WriteEv("Error", Cut(Display(op.res.e) \o <<NL>>))>>
        /\ IF HasBit(pre.flags, ExitBit) /\ ~HasBit(pre.flags, 0)
           THEN ~alive /\ exit_code = 1 /\ ret = Diverged /\ trace[Len(trace)].ev = "exit"
           ELSE alive /\ ret = op.res
        /\ pre.write # "reconf" => LOGGER = pre

C5_Witness ==
    /\ op.name = "ResultExt::log"
    /\ op.res.tag = "Err"
    /\ pre = Logger("custom", 0)
    /\ SinkCalls = <<WriteEv("Error", <<65, NL>>)>>
    /\ ret = op.res

(* C6: ResultExt::log on a success returns the same success value, invokes  *)
(* no sink and does not end the process, whatever the Logger State.         *)
C6_SuccessPassesThrough ==
    (op.name = "ResultExt::log" /\ op.res.tag = "Ok") =>
        /\ ret = op.res
        /\ trace = <<>>
        /\ io = <<>>
        /\ alive
        /\ LOGGER = pre

C6_Witness ==
    /\ op.name = "ResultExt::log"
    /\ op.res.tag = "Ok"
    /\ pre = Logger("cmdline_write", ExitOnError)
    /\ ret = op.res

(* C7, as stated: enabling, disabling and enabling a level again leaves the *)
(* Logger State as it was before the three calls.                           *)
C7_Original ==
    (tog.n = 3) => LOGGER = tog.start

(* C7, amended: enabling, disabling and enabling a level again leaves the   *)
(* Logger State as one enabling call leaves it: the level's suppression bit *)
(* clear, the sink and every other bit as before; that is the state before  *)
(* the three calls exactly when the bit was clear then, or the level has no *)
(* suppression bit.                                                         *)
C7_ToggleNetEffect ==
    (tog.n = 3) =>
        LET had == tog.level \in RankedLevels /\ HasBit(tog.start.flags, LevelBit(tog.level))
        IN  /\ LOGGER.write = tog.start.write
            /\ LOGGER.flags = tog.start.flags - (IF had THEN 2 ^ LevelBit(tog.level) ELSE 0)
            /\ (LOGGER = tog.start) <=> ~had

C7_Witness ==
    /\ tog.n = 3
    /\ tog.level = "Info"
    /\ tog.start = Logger("custom", 2 * ExitOnError - 1)
    /\ LOGGER = Logger("custom", 2 * ExitOnError - 1 - DisableInfo)

(* C8: log_impl hands the sink the rendered bytes when they are at most     *)
(* BufCap long, their first BufCap bytes when they are longer, and never    *)
(* more than BufCap bytes; slicing the buffer never fails.                  *)
C8_RenderedOrTruncated ==
    (op.name = "log_impl" /\ WasUnsuppressed) =>
        /\ Len(SinkCalls) = 1
        /\ \A i \in 1 .. Len(trace) : trace[i].ev # "panic"
        /\ LET m == SinkCalls[1].msg
           IN  /\ Len(m) <= BufCap
               /\ Len(op.msg) <= BufCap => m = op.msg
               /\ Len(op.msg) > BufCap => (Len(m) = BufCap /\ m = SubSeq(op.msg, 1, BufCap))

C8_Witness ==
    /\ op.name = "log_impl"
    /\ op.level = "Other"
    /\ Len(op.msg) > BufCap
    /\ pre.write = "cmdline_write"
    /\ Len(io) = 1
    /\ Len(io[1].bytes) = BufCap

(* C9: with debug_assertions off, debug! invokes no sink, evaluates no      *)
(* argument and changes nothing; with debug_assertions on it evaluates its  *)
(* argument and does what log_impl does at Debug level with the rendering   *)
(* of its arguments followed by a newline.                                  *)
C9_DebugGate ==
    (op.name = "debug!") =>
        IF debug_assertions
        THEN /\ evals = 1
             /\ \E run \in SinkRuns(pre) :
                    Outcome(trace, Ran(io, LOGGER), alive, exit_code)
                        = log_impl(pre, "Debug", op.msg \o <<NL>>, run)
             /\ (~HasBit(pre.flags, 3)) =>
                    SinkCalls = <<WriteEv("Debug", Cut(op.msg \o <<NL>>))>>
             /\ HasBit(pre.flags, 3) => trace = <<>>
        ELSE /\ evals = 0
             /\ trace = <<>>
             /\ io = <<>>
             /\ alive
             /\ LOGGER = pre

C9_Witness ==
    /\ op.name = "debug!"
    /\ ~debug_assertions
    /\ pre = Logger("cmdline_write", ExitOnError)
    /\ evals = 0
    /\ trace = <<>>

(* C10: cmdline_logging replaces the Logger State: whatever it was before,  *)
(* afterwards the sink is the command-line sink, exit-on-error is set and   *)
(* the four suppression bits are clear.                                     *)
C10_CmdlineLoggingReplaces ==
    (op.name = "cmdline_logging") =>
        /\ LOGGER.write = "cmdline_write"
        /\ HasBit(LOGGER.flags, ExitBit)
        /\ \A k \in 0 .. 3 : ~HasBit(LOGGER.flags, k)
        /\ LOGGER.flags = ExitOnError

C10_Witness ==
    /\ op.name = "cmdline_logging"
    /\ pre = Logger("custom", DisableError + DisableWarn + DisableInfo + DisableDebug)
    /\ LOGGER = Logger("cmdline_write", ExitOnError)

(* C11: the command-line sink writes each message it is handed to exactly   *)
(* one stream: standard output when the level is Info, standard error for   *)
(* every other level, the four ranked ones or not.                          *)
C11_OneStreamPerMessage ==
    (pre.write = "cmdline_write" /\ Len(SinkCalls) >= 1) =>
        /\ Len(SinkCalls) = 1
        /\ Len(io) = 1
        /\ io[1].bytes = SinkCalls[1].msg
        /\ io[1].stream = IF SinkCalls[1].level = "Info" THEN "stdout" ELSE "stderr"

C11_Witness ==
    /\ pre.write = "cmdline_write"
    /\ op.name = "log_with_rs"
    /\ op.level = "Other"
    /\ io = <<[stream |-> "stderr", bytes |-> op.msg, ok |-> TRUE]>>

(* C12: set_log_level_state(level, enabled) leaves the sink, the            *)
(* exit-on-error bit and the other levels' suppression bits as they were;   *)
(* the level's own bit ends clear when enabled and set when not; a level    *)
(* outside the four ranked ones leaves the whole Logger State unchanged.    *)
C12_SetLevelFrame ==
    (op.name = "set_log_level_state") =>
        /\ LOGGER.write = pre.write
        /\ \A k \in 0 .. ExitBit :
               IF op.level \in RankedLevels /\ k = LevelBit(op.level)
               THEN HasBit(LOGGER.flags, k) = ~op.b
               ELSE HasBit(LOGGER.flags, k) = HasBit(pre.flags, k)
        /\ op.level \notin RankedLevels => LOGGER = pre

C12_Witness ==
    /\ op.name = "set_log_level_state"
    /\ op.level = "Warn"
    /\ op.b = FALSE
    /\ pre = Logger("custom", ExitOnError + DisableInfo)
    /\ LOGGER = Logger("custom", ExitOnError + DisableInfo + DisableWarn)

(* C13: exit_on_error(b) makes the exit-on-error bit equal b and leaves the *)
(* sink and the four suppression bits as they were; called where the bit    *)
(* already equals b (as a second call with the same argument is) it changes *)
(* nothing.                                                                 *)
C13_ExitOnErrorFrame ==
    (op.name = "exit_on_error") =>
        /\ HasBit(LOGGER.flags, ExitBit) = op.b
        /\ LOGGER.write = pre.write
        /\ \A k \in 0 .. 3 : HasBit(LOGGER.flags, k) = HasBit(pre.flags, k)
        /\ (HasBit(pre.flags, ExitBit) = op.b) => LOGGER = pre
        /\ exit_on_error(LOGGER, op.b) = LOGGER

C13_Witness ==
    /\ op.name = "exit_on_error"
    /\ op.b = TRUE
    /\ pre = Logger("cmdline_write", ExitOnError + DisableError + DisableInfo)
    /\ LOGGER = pre

(* C14: a failed write of the sink is not propagated: the logging call      *)
(* neither panics nor hands back a failure, and exit-on-error is applied as *)
(* after a successful write: exit with status 1 for an Error-level message  *)
(* with the bit set, a normal return otherwise.                             *)
C14_SinkFailureSwallowed ==
    (AnyDispatch /\ io # <<>> /\ ~io[1].ok) =>
        /\ \A i \in 1 .. Len(trace) : trace[i].ev # "panic"
        /\ Len(SinkCalls) = 1
        /\ LOGGER = pre
        /\ IF op.level = "Error" /\ HasBit(pre.flags, ExitBit)
           THEN ~alive /\ exit_code = 1 /\ trace[Len(trace)].ev = "exit" /\ ret = Diverged
           ELSE /\ alive
                /\ exit_code = 0
                /\ ret = IF op.name = "ResultExt::log" THEN op.res ELSE Unit

C14_Witness ==
    /\ op.name = "log_impl"
    /\ op.level = "Warn"
    /\ pre = Logger("cmdline_write", ExitOnError)
    /\ io = <<[stream |-> "stderr", bytes |-> op.msg, ok |-> FALSE]>>
    /\ alive
    /\ ret = Unit

(* C15: with the Error suppression bit and the exit-on-error bit both set,  *)
(* an Error-level dispatch returns at once: no sink invocation, no stream   *)
(* write, no exit, the Logger State as it was.                              *)
C15_SuppressedErrorDoesNotExit ==
    (ErrorDispatch /\ HasBit(pre.flags, 0) /\ HasBit(pre.flags, ExitBit)) =>
        /\ trace = <<>>
        /\ io = <<>>
        /\ alive
        /\ exit_code = 0
        /\ ret # Diverged
        /\ LOGGER = pre

C15_Witness ==
    /\ op.name = "log_impl"
    /\ op.level = "Error"
    /\ pre = Logger("cmdline_write", ExitOnError + DisableError)
    /\ trace = <<>>
    /\ alive

(* C16: a logging call ends the process only for level Error: a dispatch at *)
(* any other level returns whatever the flags, and whenever the process has *)
(* ended, the call that ended it invoked the sink at level Error just       *)
(* before exit.                                                             *)
C16_OnlyErrorTerminates ==
    /\ (AnyDispatch /\ op.level # "Error") => (alive /\ ret # Diverged)
    /\ ~alive =>
           /\ AnyDispatch
           /\ op.level = "Error"
           /\ Len(trace) >= 2
           /\ trace[Len(trace)].ev = "exit"
           /\ trace[Len(trace) - 1].ev = "write"
           /\ trace[Len(trace) - 1].level = "Error"

C16_Witness ==
    /\ op.name = "log_with_rs"
    /\ op.level = "Other"
    /\ pre = Logger("custom", ExitOnError)
    /\ Len(SinkCalls) = 1
    /\ alive

(* C17: a dispatch decides from the Logger State copied at entry: when the  *)
(* sink makes a configuration call while it runs, the call still ends the   *)
(* process exactly when the level is Error and exit-on-error was set at     *)
(* entry; the sink's change is in LOGGER when the call is over, for the     *)
(* next dispatch to read.                                                   *)
C17_DecisionsFromEntrySnapshot ==
    (AnyDispatch /\ pre.write = "reconf" /\ Len(SinkCalls) >= 1) =>
        /\ Len(SinkCalls) = 1
        /\ io = <<>>
        /\ (~alive) <=> (op.level = "Error" /\ HasBit(pre.flags, ExitBit))
        /\ LOGGER \in {exit_on_error(pre, TRUE), exit_on_error(pre, FALSE),
                       set_log_level_state(pre, SinkCalls[1].level, FALSE),
                       cmdline_logging(pre)}

C17_Witness ==
    /\ op.name = "log_with_rs"
    /\ op.level = "Error"
    /\ pre = Logger("reconf", 0)
    /\ LOGGER = Logger("reconf", ExitOnError)
    /\ Len(SinkCalls) = 1
    /\ alive

(* C18: for a message that fits the buffer, log_with_rs with the bytes and  *)
(* log_impl with arguments rendering to those bytes do the same: the same   *)
(* sink invocations and stream writes, the same exit or return, the same    *)
(* Logger State afterwards.                                                 *)
C18_EntryPointsAgree ==
    /\ (op.name = "log_with_rs" /\ Len(op.msg) <= BufCap) =>
           \E run \in SinkRuns(pre) :
               log_impl(pre, op.level, op.msg, run)
                   = Outcome(trace, Ran(io, LOGGER), alive, exit_code)
    /\ (op.name = "log_impl" /\ Len(op.msg) <= BufCap) =>
           \E run \in SinkRuns(pre) :
               log_with_rs(pre, op.level, op.msg, run)
                   = Outcome(trace, Ran(io, LOGGER), alive, exit_code)

C18_Witness ==
    /\ op.name = "log_with_rs"
    /\ op.level = "Error"
    /\ Len(op.msg) = BufCap
    /\ pre = Logger("cmdline_write", ExitOnError)
    /\ ~alive
    /\ log_impl(pre, "Error", op.msg, [ok |-> TRUE, cfg |-> "none"])
           = Outcome(trace, Ran(io, LOGGER), alive, exit_code)

(* C19: a message of a level outside the four ranked ones is delivered      *)
(* whatever the flags: the sink is invoked exactly once, with that level,   *)
(* and the call returns.                                                    *)
C19_UnrankedLevelAlwaysDelivered ==
    (RawOrFormatted /\ op.level \notin RankedLevels) =>
        /\ Len(SinkCalls) = 1
        /\ SinkCalls[1].level = op.level
        /\ alive
        /\ ret = Unit

C19_Witness ==
    /\ op.name = "log_with_rs"
    /\ op.level = "Other"
    /\ pre = Logger("custom", 2 * ExitOnError - 1)
    /\ SinkCalls = <<WriteEv("Other", op.msg)>>
    /\ alive

(* C20: a logging call leaves the Logger State as it found it unless the    *)
(* sink it invoked made a configuration call; otherwise the state changes   *)
(* only in exit_on_error, set_log_level_state, cmdline_logging and a direct *)
(* store to LOGGER.                                                         *)
C20_LoggingOnlyReads ==
    /\ (AnyDispatch /\ pre.write # "reconf") => LOGGER = pre
    /\ (AnyDispatch /\ SinkCalls = <<>>) => LOGGER = pre
    /\ (op # NoCall /\ LOGGER # pre) =>
           \/ op.name \in {"exit_on_error", "set_log_level_state", "cmdline_logging",
                           "install"}
           \/ (AnyDispatch /\ pre.write = "reconf" /\ Len(SinkCalls) = 1)

C20_Witness ==
    /\ op.name = "log_impl"
    /\ op.level = "Info"
    /\ pre = Logger("custom", ExitOnError + DisableWarn)
    /\ Len(SinkCalls) = 1
    /\ LOGGER = pre
    /\ alive

====
